---- MODULE Spec2Model ----
(***************************************************************************)
(* A model of arxiv_assessor.py: the command line tool that walks the      *)
(* "recent" listing of an arXiv category (get_daily_papers), downloads and *)
(* summarises every paper found (summarize_pdf, summarize_text) and writes *)
(* a line-wrapped text report (main).                                      *)
(*                                                                         *)
(* The listing of the category is an input: a finite sequence of pages,    *)
(* page k being what the server answers at offset (k-1)*25; beyond the     *)
(* sequence the server answers a page with no header and no entries.  The  *)
(* two requests the code makes for offset 0 (lines 41 and 58) see the same *)
(* page.  Text is a sequence of one-character strings.                     *)
(***************************************************************************)
EXTENDS Integers, Sequences, FiniteSets, TLC

VARIABLES
    args,          \* parsed command line: [provider, model]
    listing,       \* the category's listing pages, in offset order (input)
    pc,            \* position of the run
    err,           \* the exception that ended the run, or how main returned
    papers,        \* get_daily_papers: the accumulator (line 36)
    current_page,  \* get_daily_papers: page counter (line 37)
    today_date,    \* get_daily_papers: date of the first header (line 54)
    requests,      \* URLs requested so far with requests.get, in order
    printed,       \* what main reported on the console
    idx,           \* main: position of the for loop of line 193 in papers
    temp_pdf,      \* summarize_pdf: whether temp.pdf exists on disk
    pending,       \* summarize_pdf: exception raised inside the try block
    unlinks,       \* summarize_pdf: outcomes of the unlink calls of this call
    calls,         \* provider calls made so far (one entry per call)
    summary,       \* main: the summary of the current paper (line 195)
    remaining,     \* main: text still to be written (line 203)
    file           \* the report file: the strings written to it, in order

vars == << args, listing, pc, err, papers, current_page, today_date, requests,
           printed, idx, temp_pdf, pending, unlinks, calls, summary, remaining,
           file >>

(***************************************************************************)
(* Bounds of the model.                                                    *)
(***************************************************************************)
MaxPages == 3
MainPages == 2
MaxWords == 3

(***************************************************************************)
(* Sequence helpers with Python's conventions (0-based, half-open slices). *)
(***************************************************************************)
Min(a, b) == IF a <= b THEN a ELSE b

\* s[lo:hi]
Slice(s, lo, hi) == SubSeq(s, lo + 1, Min(hi, Len(s)))

\* s[lo:]
SliceFrom(s, lo) == SubSeq(s, lo + 1, Len(s))

NotFound == -1

\* s.rindex(c): the highest 0-based index of c in s; Python raises ValueError
\* when there is none, reported here as NotFound.
RIndex(s, c) ==
    LET hits == { i \in 1..Len(s) : s[i] = c }
    IN  IF hits = {} THEN NotFound
        ELSE (CHOOSE i \in hits : \A j \in hits : j <= i) - 1

\* The character c, n times.
Rep(c, n) == [i \in 1..n |-> c]

RECURSIVE Flatten(_)
Flatten(ss) == IF ss = << >> THEN << >> ELSE Head(ss) \o Flatten(Tail(ss))

(***************************************************************************)
(* Date headers.  A header is the text of an <h3> that matches the regular *)
(* expression \w+,\s+\d+\s+\w+\s+\d{4}; it is kept as the four fields the  *)
(* expression separates, each field as the characters matched: wd and mon  *)
(* are runs of \w, day is one or more digits, year is four digits.  An     *)
(* <h3> that does not match is no header at all.  The characters of the    *)
(* names are one-character strings; the characters of day and year are     *)
(* code points (48 is "0"), so that digits outside ASCII have a value.     *)
(***************************************************************************)
Hdr(wd, d, m, y) == [wd |-> wd, day |-> d, mon |-> m, year |-> y]

\* The names of a header are kept letter by letter.
Chars3(a, b, c) == << a, b, c >>

\* str.lower() on one character, as strptime's case-insensitive matching of
\* names needs it.
LowerChar(c) ==
    CASE c = "A" -> "a"
      [] c = "B" -> "b"
      [] c = "C" -> "c"
      [] c = "D" -> "d"
      [] c = "E" -> "e"
      [] c = "F" -> "f"
      [] c = "G" -> "g"
      [] c = "H" -> "h"
      [] c = "I" -> "i"
      [] c = "J" -> "j"
      [] c = "K" -> "k"
      [] c = "L" -> "l"
      [] c = "M" -> "m"
      [] c = "N" -> "n"
      [] c = "O" -> "o"
      [] c = "P" -> "p"
      [] c = "Q" -> "q"
      [] c = "R" -> "r"
      [] c = "S" -> "s"
      [] c = "T" -> "t"
      [] c = "U" -> "u"
      [] c = "V" -> "v"
      [] c = "W" -> "w"
      [] c = "X" -> "x"
      [] c = "Y" -> "y"
      [] c = "Z" -> "z"
      [] OTHER -> c

Lower(name) == [i \in 1..Len(name) |-> LowerChar(name[i])]

\* %a: the abbreviated weekday names, in lower case.
WeekdayAbbr ==
    { Chars3("m", "o", "n"), Chars3("t", "u", "e"), Chars3("w", "e", "d"),
      Chars3("t", "h", "u"), Chars3("f", "r", "i"), Chars3("s", "a", "t"),
      Chars3("s", "u", "n") }

\* %b: the abbreviated month names, in lower case, in calendar order.
MonthAbbr ==
    << Chars3("j", "a", "n"), Chars3("f", "e", "b"), Chars3("m", "a", "r"),
       Chars3("a", "p", "r"), Chars3("m", "a", "y"), Chars3("j", "u", "n"),
       Chars3("j", "u", "l"), Chars3("a", "u", "g"), Chars3("s", "e", "p"),
       Chars3("o", "c", "t"), Chars3("n", "o", "v"), Chars3("d", "e", "c") >>

\* The number of the month a name stands for; 0 when it is no month name.
MonthNumber(name) ==
    LET n == Lower(name)
        hits == { k \in 1..Len(MonthAbbr) : MonthAbbr[k] = n }
    IN  IF hits = {} THEN 0 ELSE CHOOSE k \in hits : TRUE

IsLeap(y) == (y % 4 = 0 /\ y % 100 # 0) \/ y % 400 = 0

DaysIn(m, y) ==
    IF m \in {4, 6, 9, 11} THEN 30
    ELSE IF m = 2 THEN (IF IsLeap(y) THEN 29 ELSE 28)
    ELSE 31

\* The code point of the ASCII digit d.
Ascii(d) == 48 + d

\* The code points of the digit zero of every run of decimal digits of
\* Unicode (category Nd, Unicode 14.0 as the interpreter carries it): ASCII,
\* Arabic-Indic (1632), Extended Arabic-Indic (1776), NKo, Devanagari (2406),
\* ..., Fullwidth (65296), ..., Segmented (130032).  Each zero is followed by
\* the digits one to nine of its run.
DigitZeros ==
    { 48, 1632, 1776, 1984, 2406, 2534, 2662, 2790, 2918, 3046, 3174, 3302,
      3430, 3558, 3664, 3792, 3872, 4160, 4240, 6112, 6160, 6470, 6608,
      6784, 6800, 6992, 7088, 7232, 7248, 42528, 43216, 43264, 43472,
      43504, 43600, 44016, 65296, 66720, 68912, 69734, 69872, 69942, 70096,
      70384, 70736, 70864, 71248, 71360, 71472, 71904, 72016, 72784, 73040,
      73120, 92768, 92864, 93008, 120782, 120792, 120802, 120812, 120822,
      123200, 123632, 125264, 130032 }

\* int() of one character matched by \d: its place in its run of decimal
\* digits (the ASCII run is looked at first); -1 for a character that is no
\* decimal digit.
DigitValue(c) ==
    IF c >= Ascii(0) /\ c <= Ascii(9) THEN c - Ascii(0)
    ELSE LET zs == { z \in DigitZeros : z <= c /\ c <= z + 9 }
         IN  IF zs = {} THEN -1 ELSE c - (CHOOSE z \in zs : TRUE)

\* The character class [1-9] of strptime's expression for %d.
OneToNine == Ascii(1)..Ascii(9)

\* %d, strptime's expression 3[0-1]|[1-2]\d|0[1-9]|[1-9] applied to the whole
\* day field (whitespace follows it in the format): the day of the month, or 0
\* when the field does not match.  The ranges are ASCII, \d is any decimal
\* digit, so "028" and "\u0662\u0668" do not match and "2\u096e" is 28.
DayNumber(d) ==
    IF Len(d) = 2 /\ d[1] = Ascii(3) /\ d[2] \in {Ascii(0), Ascii(1)}
        THEN 30 + DigitValue(d[2])
    ELSE IF Len(d) = 2 /\ d[1] \in {Ascii(1), Ascii(2)} /\ DigitValue(d[2]) >= 0
        THEN 10 * DigitValue(d[1]) + DigitValue(d[2])
    ELSE IF Len(d) = 2 /\ d[1] = Ascii(0) /\ d[2] \in OneToNine
        THEN DigitValue(d[2])
    ELSE IF Len(d) = 1 /\ d[1] \in OneToNine
        THEN DigitValue(d[1])
    ELSE 0

\* %Y, strptime's expression \d\d\d\d and int() of the match: the year, or -1
\* when the field is not four decimal digits.
YearNumber(y) ==
    IF Len(y) = 4 /\ \A i \in 1..4 : DigitValue(y[i]) >= 0
    THEN 1000 * DigitValue(y[1]) + 100 * DigitValue(y[2])
             + 10 * DigitValue(y[3]) + DigitValue(y[4])
    ELSE -1

\* datetime.strptime(text, '%a, %d %b %Y'): the names are matched without
\* regard to case; the weekday name is parsed and dropped (it is not checked
\* against the date); the result holds day, month and year as numbers.  A
\* text that is not a calendar date raises ValueError, reported here as
\* ok = FALSE.
Strptime(h) ==
    LET month == MonthNumber(h.mon)
        day == DayNumber(h.day)
        year == YearNumber(h.year)
    IN  IF /\ Lower(h.wd) \in WeekdayAbbr
           /\ month # 0
           /\ year >= 1
           /\ day >= 1
           /\ day <= DaysIn(month, year)
        THEN [ok |-> TRUE, day |-> day, month |-> month, year |-> year]
        ELSE [ok |-> FALSE]

NoDate == [ok |-> FALSE]

(***************************************************************************)
(* Listing pages.  A page is its <h3> date headers in document order and   *)
(* its <dl> lists in document order; a <dl> is the sequence of its <dt>    *)
(* entries and a <dt> is the sequence of the hrefs of the "Download PDF"   *)
(* links inside it (none or one).  An href is its path segments.           *)
(***************************************************************************)
Page(h3, dls) == [h3 |-> h3, dls |-> dls]

Href1 == << "pdf", "2401.00001" >>
Href2 == << "pdf", "2401.00002" >>

NoLinkDt == << >>
Dt(href) == << href >>

Oct == Chars3("O", "c", "t")
Y2026 == << Ascii(2), Ascii(0), Ascii(2), Ascii(6) >>
\* "202\u06f6": the same year, its last digit Extended Arabic-Indic
Y2026Ext == << Ascii(2), Ascii(0), Ascii(2), 1782 >>

Wed28 == Hdr(Chars3("W", "e", "d"), << Ascii(2), Ascii(8) >>, Oct, Y2026)
\* "mon, 2\u096e OCT 202\u06f6": the same date, another weekday name, other
\* case, a Devanagari eight in the day
Mon28 == Hdr(Chars3("m", "o", "n"), << Ascii(2), 2414 >>, Chars3("O", "C", "T"), Y2026Ext)
Tue27 == Hdr(Chars3("T", "u", "e"), << Ascii(2), Ascii(7) >>, Oct, Y2026)
\* "Wed, 32 Oct 2026": matches the expression, is no date
Wed32 == Hdr(Chars3("W", "e", "d"), << Ascii(3), Ascii(2) >>, Oct, Y2026)
\* "Wed, 028 Oct 2026": matches the expression, three digits are no %d
Wed028 == Hdr(Chars3("W", "e", "d"), << Ascii(0), Ascii(2), Ascii(8) >>, Oct, Y2026)

\* What the server answers beyond the end of the listing.
ExhaustedPage == Page(<< >>, << >>)

Pages ==
    { ExhaustedPage,
      Page(<< >>, << << Dt(Href1) >> >>),
      Page(<< >>, << << NoLinkDt >> >>),
      Page(<< >>, << << >> >>),
      Page(<< Wed28 >>, << >>),
      Page(<< Wed28 >>, << << Dt(Href1) >> >>),
      Page(<< Wed28 >>, << << Dt(Href1), Dt(Href2) >> >>),
      Page(<< Wed28 >>, << << NoLinkDt, Dt(Href2) >> >>),
      Page(<< Wed28 >>, << << NoLinkDt >> >>),
      Page(<< Wed28 >>, << << NoLinkDt >>, << Dt(Href2) >> >>),
      Page(<< Wed28, Tue27 >>, << << Dt(Href1) >>, << Dt(Href2) >> >>),
      Page(<< Mon28 >>, << << Dt(Href2) >> >>),
      Page(<< Tue27 >>, << << Dt(Href1) >> >>),
      Page(<< Tue27 >>, << >>),
      Page(<< Wed32 >>, << << Dt(Href1) >> >>),
      Page(<< Wed32 >>, << >>),
      Page(<< Wed028 >>, << << Dt(Href1) >> >>) }

\* The page the server answers at offset k*25.
PageAt(k) == IF k < Len(listing) THEN listing[k + 1] ELSE ExhaustedPage

PageSize == 25

ListUrl(k) == [kind |-> "list", skip |-> k * PageSize]
PdfUrl(href) == [kind |-> "pdf", base |-> "https://arxiv.org", path |-> href]

\* The dictionary built on lines 80-83.
Paper(href) == [pdf_url |-> PdfUrl(href), paper_id |-> href[Len(href)]]

\* dt.find_next('a', title='Download PDF') for the i-th <dt> of the first
\* <dl>: the first such link at or after that <dt> in document order, which
\* runs on through the later <dt>s and through the <dl>s that follow.
LinksFrom(page, i) ==
    Flatten(SubSeq(page.dls[1], i, Len(page.dls[1])))
        \o Flatten([d \in 1..(Len(page.dls) - 1) |-> Flatten(page.dls[d + 1])])

RECURSIVE CollectFrom(_, _)
CollectFrom(page, i) ==
    IF i > Len(page.dls[1]) THEN << >>
    ELSE LET links == LinksFrom(page, i)
         IN  (IF links = << >> THEN << >> ELSE << Paper(links[1]) >>)
                 \o CollectFrom(page, i + 1)

\* new_papers of lines 72-83 (empty when the page has no <dl>).
NewPapers(page) ==
    IF page.dls = << >> THEN << >> ELSE CollectFrom(page, 1)


(***************************************************************************)
(* Command line and provider configuration.                                *)
(***************************************************************************)
\* An optional string: << >> is Python's None, << s >> the string s.
NoArg == << >>
Given(text) == << text >>

\* ProviderFactory.get_supported_providers() (line 156), as far as the model
\* needs it: the providers installed with the tool.
SupportedProviders == {"anthropic", "openai", "google", "groq"}

\* The inline dictionary of lines 168-173, read with .get(): None for a
\* provider that is not a key.
DefaultModel(provider) ==
    CASE provider = "anthropic" -> Given("claude-3-sonnet")
      [] provider = "openai"    -> Given("gpt-4")
      [] provider = "google"    -> Given("gemini-pro")
      [] provider = "groq"      -> Given("llama3-8b-8192")
      [] OTHER                  -> NoArg

\* Python's truth value of args.model: None and the empty string are false.
Truthy(opt) == opt # NoArg /\ opt[1] # ""

\* model = args.model or {...}.get(args.provider)   (line 168)
EffectiveModel(a) == IF Truthy(a.model) THEN a.model ELSE DefaultModel(a.provider)

\* The model as line 138 formats it into f"{self.provider}:{self.model}".
ModelText(opt) == IF opt = NoArg THEN "None" ELSE opt[1]

\* Mutant: a provider check that lets every provider through.
ProviderAcceptedAlways(a) == TRUE

\* The test of line 158.
ProviderAccepted(a) == a.provider \in SupportedProviders

\* What the provider's API knows (outside the repository): the models a call
\* can succeed with.  Any other model makes the call of line 137 raise.
ModelKnown(provider, model) ==
    DefaultModel(provider) # NoArg /\ model = DefaultModel(provider)[1]

ArgsSet == [provider : {"anthropic", "bogus"},
            model : {NoArg, Given(""), Given("no-such-model")}]

(***************************************************************************)
(* Errors.  err.type is "none" while the run is going on or has returned   *)
(* normally; err.at names the step that raised.                            *)
(***************************************************************************)
NoErr == [type |-> "none", at |-> "none"]
Raised(type, at) == [type |-> type, at |-> at]

RecentUrl == [kind |-> "recent"]

(***************************************************************************)
(* The report file, as the sequence of strings written to it.              *)
(***************************************************************************)
W(kind, v) == [w |-> kind, v |-> v]

\* Lines 190-191.
ReportHeader == << W("title", "ArXiv Summaries"), W("rule=", 80) >>

\* Lines 197-200.
BlockHead(paper) ==
    << W("id", paper.paper_id), W("url", paper.paper_id),
       W("pdf", paper.pdf_url), W("label", "Summary:") >>

Width == 150

\* remaining[:150].rindex(' ')   (line 205)
SplitIndex(rem) == RIndex(Slice(rem, 0, Width), " ")

\* Mutant: the rest of the text keeps the space it was broken at.
RestAfterKeepSpace(rem, i) == SliceFrom(rem, i)

\* remaining[split_index+1:]   (line 207)
RestAfter(rem, i) == SliceFrom(rem, i + 1)

(***************************************************************************)
(* Summaries.  A text is built from words of the lengths in WordLens,      *)
(* joined by single spaces; the i-th word is made of the i-th letter, and  *)
(* a word of length 0 gives leading, doubled or trailing spaces.           *)
(***************************************************************************)
Letters == << "a", "b", "c", "d", "e", "f" >>

WordLens == {0, 1, 74, 149, 150}

RECURSIVE Join(_, _)
Join(lens, i) ==
    IF i > Len(lens) THEN << >>
    ELSE (IF i = 1 THEN << >> ELSE << " " >>)
             \o Rep(Letters[i], lens[i]) \o Join(lens, i + 1)

TextOf(lens) == Join(lens, 1)

Summaries ==
    { TextOf(lens) : lens \in UNION { [1..n -> WordLens] : n \in 1..MaxWords } }

\* The texts the provider answers with in the whole-program specification:
\* a short one, one that wraps, and 300 characters with no space among the
\* first 150.
ProviderTexts == { TextOf(<< 1, 1 >>), TextOf(<< 149, 74 >>), TextOf(<< 150, 149 >>) }

(***************************************************************************)
(* Initial states.                                                         *)
(***************************************************************************)
InitCommon ==
    /\ err = NoErr
    /\ papers = << >>
    /\ current_page = 0
    /\ today_date = NoDate
    /\ requests = << >>
    /\ printed = << >>
    /\ idx = 0
    /\ temp_pdf = FALSE
    /\ pending = "none"
    /\ unlinks = << >>
    /\ calls = << >>
    /\ summary = << >>
    /\ remaining = << >>
    /\ file = << >>

\* The program is started from the command line.
Init ==
    /\ args \in ArgsSet
    /\ listing \in [1..MainPages -> Pages]
    /\ pc = "main"
    /\ InitCommon

\* get_daily_papers is called on a constructed assessor.
InitWalker ==
    /\ args = [provider |-> "anthropic", model |-> NoArg]
    /\ listing \in [1..MaxPages -> Pages]
    /\ pc = "gdp"
    /\ InitCommon

(***************************************************************************)
(* get_daily_papers, lines 32-93.                                          *)
(***************************************************************************)
Crash(type, at) ==
    /\ pc' = "crashed"
    /\ err' = Raised(type, at)

\* Mutant: the date of a page is never compared with the target date.
DateDiffersNever(page, today) == FALSE

\* Lines 62-69: the page's first header parses to another date than today's.
\* (Evaluated only when the header parses.)
DateDiffers(page, today) ==
    /\ page.h3 # << >>
    /\ Strptime(page.h3[1]) # today

\* Mutant: only a page without a <dl> ends the walk (the test of line 86 is
\* missing).
YieldsNothingNoDlOnly(page) == page.dls = << >>

\* Lines 72-74 and 86-87: the page has no <dl>, or no paper came out of it.
YieldsNothing(page) == NewPapers(page) = << >>

\* Lines 62-66: the page's first header is not a calendar date.
HeaderRaises(page) ==
    /\ page.h3 # << >>
    /\ ~Strptime(page.h3[1]).ok

\* Lines 40-54: the request for the first page and the target date.  (The
\* return of line 52 cannot be taken: line 50 searches the text that line 45
\* has matched with the same expression.)
FirstFetch ==
    /\ pc = "gdp"
    /\ requests' = Append(requests, RecentUrl)
    /\ UNCHANGED << args, listing, papers, current_page, printed, idx, temp_pdf,
                    pending, unlinks, calls, summary, remaining, file >>
    /\ \/ /\ Crash("ConnectionError", "listing")          \* requests.get raises
          /\ UNCHANGED today_date
       \/ /\ PageAt(0).h3 = << >>                            \* line 46-47
          /\ pc' = "returned"
          /\ UNCHANGED << err, today_date >>
       \/ /\ HeaderRaises(PageAt(0))                         \* line 54 raises
          /\ Crash("ValueError", "listing")
          /\ UNCHANGED today_date
       \/ /\ PageAt(0).h3 # << >>
          /\ ~HeaderRaises(PageAt(0))
          /\ today_date' = Strptime(PageAt(0).h3[1])
          /\ pc' = "loop"
          /\ UNCHANGED err

\* Lines 56-90: one iteration of the pagination loop (and lines 92-93 when
\* the iteration breaks out of it).
LoopStep ==
    /\ pc = "loop"
    /\ requests' = Append(requests, ListUrl(current_page))
    /\ UNCHANGED << args, listing, today_date, printed, idx, temp_pdf, pending,
                    unlinks, calls, summary, remaining, file >>
    /\ LET page == PageAt(current_page)
       IN  \/ /\ Crash("ConnectionError", "listing")      \* requests.get raises
              /\ UNCHANGED << papers, current_page >>
           \/ /\ HeaderRaises(page)                          \* line 66 raises
              /\ Crash("ValueError", "listing")
              /\ UNCHANGED << papers, current_page >>
           \/ /\ ~HeaderRaises(page)
              /\ DateDiffers(page, today_date)               \* line 68-69
              /\ pc' = "returned"
              /\ UNCHANGED << err, papers, current_page >>
           \/ /\ ~HeaderRaises(page)
              /\ ~DateDiffers(page, today_date)
              /\ YieldsNothing(page)                         \* line 73-74, 86-87
              /\ pc' = "returned"
              /\ UNCHANGED << err, papers, current_page >>
           \/ /\ ~HeaderRaises(page)
              /\ ~DateDiffers(page, today_date)
              /\ ~YieldsNothing(page)
              /\ papers' = papers \o NewPapers(page)         \* line 89
              /\ current_page' = current_page + 1            \* line 90
              /\ UNCHANGED << pc, err >>

NextWalker == FirstFetch \/ LoopStep

SpecWalker == InitWalker /\ [][NextWalker]_vars


(***************************************************************************)
(* main, lines 146-222, and summarize_pdf / summarize_text, lines 95-144.  *)
(***************************************************************************)
WalkerLocals == << papers, current_page, today_date >>
SummarizeLocals == << temp_pdf, pending, unlinks >>

\* Lines 155-180: the provider check; the assessor is constructed (no request
\* is made by the constructor) and get_daily_papers is called.
CheckProvider ==
    /\ pc = "main"
    /\ UNCHANGED << args, listing, err, requests, idx, calls, summary,
                    remaining, file >>
    /\ UNCHANGED WalkerLocals
    /\ UNCHANGED SummarizeLocals
    /\ \/ /\ ~ProviderAccepted(args)                         \* lines 158-165
          /\ printed' = Append(printed, "provider not supported")
          /\ pc' = "done"
       \/ /\ ProviderAccepted(args)
          /\ pc' = "gdp"
          /\ UNCHANGED printed

\* Lines 181-191: get_daily_papers has returned; the report file is opened
\* and its header written.
OpenReport ==
    /\ pc = "returned"
    /\ file' = ReportHeader
    /\ idx' = 1
    /\ pc' = "for"
    /\ UNCHANGED << args, listing, err, requests, printed, calls, summary,
                    remaining >>
    /\ UNCHANGED WalkerLocals
    /\ UNCHANGED SummarizeLocals

\* Line 217: the for loop is over; the file is closed.
Finish ==
    /\ pc = "for"
    /\ idx > Len(papers)
    /\ printed' = Append(printed, "all summaries saved")
    /\ pc' = "done"
    /\ UNCHANGED << args, listing, err, requests, idx, calls, summary,
                    remaining, file >>
    /\ UNCHANGED WalkerLocals
    /\ UNCHANGED SummarizeLocals

\* Lines 193-195 and 100-102: the next paper's PDF is requested and written
\* to temp.pdf.
Download ==
    /\ pc = "for"
    /\ idx <= Len(papers)
    /\ requests' = Append(requests, papers[idx].pdf_url)
    /\ unlinks' = << >>
    /\ pending' = "none"
    /\ UNCHANGED << args, listing, printed, idx, calls, summary, remaining,
                    file >>
    /\ UNCHANGED WalkerLocals
    /\ \/ /\ Crash("ConnectionError", "download")          \* requests.get raises
          /\ UNCHANGED temp_pdf
       \/ /\ temp_pdf' = TRUE
          /\ pc' = "extract"
          /\ UNCHANGED err

\* Lines 104-110: the try block.  PyPDF2 either reads the pages or raises.
\* (The extracted text itself, and its cut to 1024 characters on line 122,
\* play no part in what follows and are not kept.)
Extract ==
    /\ pc = "extract"
    /\ pc' = "unlink"
    /\ UNCHANGED << args, listing, err, requests, printed, idx, temp_pdf,
                    unlinks, calls, summary, remaining, file >>
    /\ UNCHANGED WalkerLocals
    /\ \/ pending' = "none"
       \/ pending' = "PdfReadError"

\* Leaving the finally block with temp.pdf deleted: the exception of the try
\* block, if any, goes on; otherwise line 122 is next.
AfterUnlink(p) ==
    IF p = "none" THEN [pc |-> "provider", err |-> NoErr]
    ELSE [pc |-> "crashed", err |-> Raised(p, "extract")]

\* Mutant: a PermissionError of the first unlink is not retried.
UnlinkRetriesNever(outcome) == FALSE

\* Lines 113-115: which outcome of the first unlink leads to the retry.
UnlinkRetries(outcome) == outcome = "PermissionError"

\* Lines 111-115: the first temp_pdf.unlink().
Unlink ==
    /\ pc = "unlink"
    /\ UNCHANGED << args, listing, requests, printed, idx, pending, calls,
                    summary, remaining, file >>
    /\ UNCHANGED WalkerLocals
    /\ \/ /\ temp_pdf' = FALSE
          /\ unlinks' = Append(unlinks, "ok")
          /\ pc' = AfterUnlink(pending).pc
          /\ err' = AfterUnlink(pending).err
       \/ \E outcome \in {"PermissionError", "OSError"} :
             /\ unlinks' = Append(unlinks, outcome)
             /\ UNCHANGED temp_pdf
             /\ IF UnlinkRetries(outcome)
                THEN pc' = "retry" /\ UNCHANGED err
                ELSE Crash(outcome, "unlink")

\* Lines 116-119: the second temp_pdf.unlink(), after the sleep.
Retry ==
    /\ pc = "retry"
    /\ UNCHANGED << args, listing, requests, printed, idx, pending, calls,
                    summary, remaining, file >>
    /\ UNCHANGED WalkerLocals
    /\ \/ /\ temp_pdf' = FALSE
          /\ unlinks' = Append(unlinks, "ok")
          /\ pc' = AfterUnlink(pending).pc
          /\ err' = AfterUnlink(pending).err
       \/ \E outcome \in {"PermissionError", "OSError"} :
             /\ unlinks' = Append(unlinks, outcome)
             /\ UNCHANGED temp_pdf
             /\ Crash(outcome, "unlink")

\* Lines 122-123 and 125-144: the provider call.  It answers with a text, or
\* raises; an ImportError (the provider's package is missing) is caught on
\* line 219, reported, and main returns.
Provider ==
    /\ pc = "provider"
    /\ calls' = Append(calls, [provider |-> args.provider,
                               model |-> ModelText(EffectiveModel(args))])
    /\ UNCHANGED << args, listing, requests, idx, remaining, file >>
    /\ UNCHANGED WalkerLocals
    /\ UNCHANGED SummarizeLocals
    /\ \/ /\ ModelKnown(args.provider, ModelText(EffectiveModel(args)))
          /\ \E s \in ProviderTexts : summary' = s
          /\ pc' = "block"
          /\ UNCHANGED << err, printed >>
       \/ /\ Crash("ProviderError", "provider")
          /\ UNCHANGED << summary, printed >>
       \/ /\ pc' = "done"
          /\ err' = Raised("ImportError (caught)", "provider")
          /\ printed' = Append(printed, "install the required package")
          /\ UNCHANGED summary

\* Lines 196-203: the head of the paper's block.
WriteBlock ==
    /\ pc = "block"
    /\ file' = file \o BlockHead(papers[idx])
    /\ remaining' = summary
    /\ pc' = "wrap"
    /\ UNCHANGED << args, listing, err, requests, printed, idx, calls,
                    summary >>
    /\ UNCHANGED WalkerLocals
    /\ UNCHANGED SummarizeLocals

\* Lines 204-207: one iteration of the wrapping loop.
WrapStep ==
    /\ pc = "wrap"
    /\ Len(remaining) > Width
    /\ UNCHANGED << args, listing, requests, printed, idx, calls, summary >>
    /\ UNCHANGED WalkerLocals
    /\ UNCHANGED SummarizeLocals
    /\ LET split_index == SplitIndex(remaining)
       IN  \/ /\ split_index = NotFound                      \* rindex raises
              /\ Crash("ValueError", "write")
              /\ UNCHANGED << remaining, file >>
           \/ /\ split_index # NotFound
              /\ file' = Append(file, W("line", Slice(remaining, 0, split_index)))
              /\ remaining' = RestAfter(remaining, split_index)
              /\ UNCHANGED << pc, err >>

\* Lines 208-215: the loop is over; the rest of the text and the rule.
FinishBlock ==
    /\ pc = "wrap"
    /\ Len(remaining) <= Width
    /\ file' = file \o << W("tail", remaining), W("rule-", 80) >>
    /\ idx' = idx + 1
    /\ pc' = "for"
    /\ UNCHANGED << args, listing, err, requests, printed, calls, summary,
                    remaining >>
    /\ UNCHANGED WalkerLocals
    /\ UNCHANGED SummarizeLocals

Next ==
    \/ CheckProvider
    \/ FirstFetch
    \/ LoopStep
    \/ OpenReport
    \/ Download
    \/ Extract
    \/ Unlink
    \/ Retry
    \/ Provider
    \/ WriteBlock
    \/ WrapStep
    \/ FinishBlock
    \/ Finish

Spec == Init /\ [][Next]_vars

(***************************************************************************)
(* The wrapping loop on its own: main is about to wrap the summary of the  *)
(* only paper of a one-page listing, and the summary is any of Summaries.  *)
(***************************************************************************)
WrapListing == << Page(<< Wed28 >>, << << Dt(Href1) >> >>) >>

InitWrap ==
    /\ args = [provider |-> "anthropic", model |-> NoArg]
    /\ listing = WrapListing
    /\ pc = "wrap"
    /\ err = NoErr
    /\ papers = << Paper(Href1) >>
    /\ current_page = 1
    /\ today_date = Strptime(Wed28)
    /\ requests = << RecentUrl, ListUrl(0), ListUrl(1), PdfUrl(Href1) >>
    /\ printed = << >>
    /\ idx = 1
    /\ temp_pdf = FALSE
    /\ pending = "none"
    /\ unlinks = << "ok" >>
    /\ calls = << [provider |-> "anthropic", model |-> "claude-3-sonnet"] >>
    /\ summary \in Summaries
    /\ remaining = summary
    /\ file = ReportHeader \o BlockHead(Paper(Href1))

NextWrap == WrapStep \/ FinishBlock

SpecWrap == InitWrap /\ [][NextWrap]_vars


(***************************************************************************)
(* Properties of get_daily_papers (checked under SpecWalker).              *)
(***************************************************************************)
Terminal == pc \in {"returned", "crashed", "done"}

NetworkDown == err.type = "ConnectionError"

HasDate(page) == page.h3 # << >> /\ Strptime(page.h3[1]).ok

BadHeader(page) == page.h3 # << >> /\ ~Strptime(page.h3[1]).ok

\* The page carries a header for another date than the first page's.
OtherDay(page) ==
    /\ page.h3 # << >>
    /\ PageAt(0).h3 # << >>
    /\ LET date == Strptime(page.h3[1])
           first == Strptime(PageAt(0).h3[1])
       IN  date.ok /\ first.ok /\ date # first

\* The papers of the pages at offsets 0 .. (n-1)*25, in page order.
RECURSIVE PapersOfFirst(_)
PapersOfFirst(n) ==
    IF n <= 0 THEN << >> ELSE PapersOfFirst(n - 1) \o NewPapers(PageAt(n - 1))

\* What ends the walk as C1 states it: a page of another day, or the end of
\* the listing.
C1_DayEnds(page) == OtherDay(page) \/ page = ExhaustedPage

\* The least k in 0..Len(listing) whose page ends the walk as C1 states it
\* (the page beyond the listing is the exhausted page).
C1_DayEnd ==
    CHOOSE k \in 0..Len(listing) :
        /\ C1_DayEnds(PageAt(k))
        /\ \A j \in 0..(k - 1) : ~C1_DayEnds(PageAt(j))

\* C1 as stated: the walker returns the papers of the leading pages of the
\* first page's day (a page without a parseable header goes with the day of
\* the page before it); only a page of another day, or the end of the
\* listing, ends the walk.
C1_AsStated ==
    pc = "returned" =>
        IF ~HasDate(PageAt(0)) THEN papers = << >>
        ELSE papers = PapersOfFirst(C1_DayEnd)

\* What ends the walk in the code: a page of another day, or a page that
\* yields no papers.
C1_Ends(page) == NewPapers(page) = << >> \/ OtherDay(page)

\* The least k >= n whose page ends the walk (the page beyond the listing
\* yields no papers).
RECURSIVE C1_EndFrom(_)
C1_EndFrom(n) ==
    IF n >= Len(listing) \/ C1_Ends(PageAt(n)) THEN n ELSE C1_EndFrom(n + 1)

C1_End == C1_EndFrom(0)

\* C1 amended: the walk ends at the first page that carries a header of
\* another day or yields no papers.  The walker accumulates the papers of
\* the pages it has passed, in page order, never passes that page, and what
\* it returns is the papers of the pages before that page; with no header on
\* the first page it returns the empty list.
C1_WalkResult ==
    /\ papers = PapersOfFirst(current_page)
    /\ current_page <= C1_End
    /\ pc = "returned" =>
          IF PageAt(0).h3 = << >>
          THEN papers = << >>
          ELSE current_page = C1_End /\ papers = PapersOfFirst(C1_End)

\* C1 witness: three pages, the third of another day, the first two returned.
C1_Witness ==
    /\ pc = "returned"
    /\ Len(listing) >= 3
    /\ OtherDay(PageAt(2))
    /\ NewPapers(PageAt(2)) # << >>
    /\ papers = NewPapers(PageAt(0)) \o NewPapers(PageAt(1))
    /\ NewPapers(PageAt(1)) # << >>

\* C2 as stated: in the pagination loop a header that is no calendar date is
\* handled like a missing header, so the loop never raises on a header.
C2_MalformedHeaderIsSkipped ==
    ~(/\ pc = "crashed"
      /\ err.type = "ValueError"
      /\ Len(requests) >= 2
      /\ BadHeader(PageAt(current_page)))

\* C7 as stated: the accumulated list never holds two papers with the same
\* identifier.
C7_NoDuplicateIds ==
    \A i, j \in 1..Len(papers) :
        papers[i].paper_id = papers[j].paper_id => i = j

\* The append-only half of C7: every step leaves the accumulated list as it
\* was or appends to it.
C7_AppendOnly ==
    [][/\ Len(papers') >= Len(papers)
       /\ SubSeq(papers', 1, Len(papers)) = papers]_vars

\* The case of C8: first page with a date and papers, second page with no
\* header and no papers.
C8_Case ==
    /\ HasDate(PageAt(0))
    /\ NewPapers(PageAt(0)) # << >>
    /\ PageAt(1).h3 = << >>
    /\ NewPapers(PageAt(1)) = << >>

\* C8: first page with a date and papers, second page with no header and no
\* papers: the walk stops at the second page (three requests: the first
\* page twice, the second once), raises nothing, and returns the first page's
\* papers.
C8_StopsAtEmptySecondPage ==
    C8_Case =>
        /\ pc = "crashed" => NetworkDown
        /\ current_page <= 1
        /\ pc = "returned" =>
              /\ papers = NewPapers(PageAt(0))
              /\ requests = << RecentUrl, ListUrl(0), ListUrl(1) >>

\* C8 witness: the second page holds a list without PDF links, a third page
\* with papers follows, and the walk has returned.
C8_Witness ==
    /\ C8_Case
    /\ pc = "returned"
    /\ PageAt(1).dls # << >>
    /\ NewPapers(PageAt(2)) # << >>
    /\ Len(papers) = 2


(***************************************************************************)
(* Properties of the whole run (checked under Spec).                       *)
(***************************************************************************)
IsId(w) == w.w = "id"
IsRule(w) == w.w = "rule-"

\* The identifiers of the blocks begun in the report, in file order.
IdsWritten == [i \in 1..Len(SelectSeq(file, IsId)) |-> SelectSeq(file, IsId)[i].v]

\* The run was ended by an error raised while paper idx was being processed.
AbortedInPaper ==
    /\ idx >= 1
    /\ idx <= Len(papers)
    /\ \/ pc = "crashed" /\ err.at \in {"download", "extract", "unlink", "provider", "write"}
       \/ pc = "done" /\ err.at = "provider"

\* C4 as stated: after an error while paper k is processed the report holds
\* the header and the complete blocks of papers 1..k-1, nothing of paper k.
C4_OnlyCompleteBlocks ==
    AbortedInPaper =>
        /\ SubSeq(file, 1, 2) = ReportHeader
        /\ IdsWritten = [i \in 1..(idx - 1) |-> papers[i].paper_id]
        /\ Len(SelectSeq(file, IsRule)) = idx - 1
        /\ file[Len(file)].w \in {"rule=", "rule-"}

\* Deletion of temp.pdf failed at most once, with a PermissionError.
DeletionBenign ==
    LET fails == { i \in 1..Len(unlinks) : unlinks[i] # "ok" }
    IN  /\ Cardinality(fails) <= 1
        /\ \A i \in fails : unlinks[i] = "PermissionError"

\* C5: once summarize_pdf is past its finally block (it returned, raised, or
\* is about to call the provider), temp.pdf is gone, provided deletion failed
\* at most once with a PermissionError; and the provider call of a paper is
\* made with temp.pdf already deleted.
C5_TempFileRemoved ==
    /\ (DeletionBenign /\ pc \notin {"extract", "unlink", "retry"}) => ~temp_pdf
    /\ pc = "provider" => (~temp_pdf /\ Len(calls) = idx - 1)

\* C5 witness: extraction failed, the first unlink raised PermissionError, the
\* retry deleted the file, and the extraction error ended the run.
C5_Witness ==
    /\ pc = "crashed"
    /\ err.at = "extract"
    /\ unlinks = << "PermissionError", "ok" >>
    /\ ~temp_pdf

\* C6 as stated: with an unsupported provider or an unsupported model no
\* request and no provider call is ever made.
C6_AsStated ==
    (\/ args.provider \notin SupportedProviders
     \/ ~ModelKnown(args.provider, ModelText(EffectiveModel(args))))
        => (requests = << >> /\ calls = << >>)

\* C6 amended: with an unsupported provider main reports it and returns; no
\* request, no provider call and no report file is ever made.
C6_UnsupportedProvider ==
    args.provider \notin SupportedProviders =>
        /\ requests = << >>
        /\ calls = << >>
        /\ file = << >>
        /\ pc \in {"main", "done"}
        /\ pc = "done" => (printed = << "provider not supported" >> /\ err = NoErr)

\* C6 witness: the run with an unsupported provider is over.
C6_Witness ==
    /\ pc = "done"
    /\ args.provider = "bogus"
    /\ printed = << "provider not supported" >>

\* C9 as stated: with nothing listed today (no date header on the first page,
\* or no papers on it) the run raises nothing, requests no PDF, calls no
\* provider, and ends with a report that holds the header only.
C9_EmptyCategoryRun ==
    (/\ args.provider \in SupportedProviders
     /\ \/ PageAt(0).h3 = << >>
        \/ NewPapers(PageAt(0)) = << >>)
        => /\ pc = "crashed" => NetworkDown
           /\ \A i \in 1..Len(requests) : requests[i].kind # "pdf"
           /\ calls = << >>
           /\ pc = "done" => file = ReportHeader

(***************************************************************************)
(* Properties of the wrapping loop (checked under SpecWrap).               *)
(***************************************************************************)
\* C3 as stated: a summary of 300 characters with no space among its first
\* 150 is wrapped without an error.
C3_NoSpaceFallsBack ==
    (/\ Len(summary) = 300
     /\ \A i \in 1..150 : summary[i] # " ")
        => pc # "crashed"

\* No 150 consecutive characters of s are all non-space.
NoLongRun(s) ==
    \A i \in 1..(Len(s) - Width + 1) : \E j \in i..(i + Width - 1) : s[j] = " "

\* The pieces of the current summary: the lines and the tail written after
\* the last "Summary:" label, then the text still to be written.
LastLabel == CHOOSE i \in 1..Len(file) :
                 /\ file[i].w = "label"
                 /\ \A j \in (i + 1)..Len(file) : file[j].w # "label"

IsText(w) == w.w \in {"line", "tail"}

TextWrites == SelectSeq(SubSeq(file, LastLabel + 1, Len(file)), IsText)

Pieces ==
    [i \in 1..Len(TextWrites) |-> TextWrites[i].v]
        \o (IF pc = "wrap" THEN << remaining >> ELSE << >>)

\* The pieces from the i-th on, with a space for every line break.
RECURSIVE JoinFrom(_, _)
JoinFrom(ps, i) ==
    IF i > Len(ps) THEN << >>
    ELSE IF i = Len(ps) THEN ps[i]
    ELSE ps[i] \o << " " >> \o JoinFrom(ps, i + 1)

\* C10: for a summary without 150 consecutive non-space characters the loop
\* raises nothing, runs at most once per character, writes no line longer
\* than 150 characters, breaks only where the text still to be written is
\* longer than 150 characters and only at the last space among its first 150,
\* and the pieces joined with single spaces are the summary.
C10_WrapIsLossless ==
    NoLongRun(summary) =>
        /\ pc # "crashed"
        /\ Len(Pieces) <= Len(summary) + 1
        /\ \A i \in 1..Len(TextWrites) : Len(TextWrites[i].v) <= Width
        /\ JoinFrom(Pieces, 1) = summary
        /\ \A i \in 1..(Len(Pieces) - 1) :
              /\ Len(JoinFrom(Pieces, i)) > Width
              /\ RIndex(Slice(JoinFrom(Pieces, i), 0, Width), " ") = Len(Pieces[i])

\* C10 witness: a summary of more than 300 characters has been written in
\* three pieces and its block is finished.
C10_Witness ==
    /\ pc = "for"
    /\ NoLongRun(summary)
    /\ Len(summary) > 300
    /\ Len(Pieces) = 3
    /\ \E i \in 1..Len(Pieces) : Len(Pieces[i]) = 149

====
